---- MODULE Spec2Model ----
(***************************************************************************)
(* Model of the offline upload queue of TeleVault                          *)
(* (src/src/services/offlineQueueService.ts) together with the part of     *)
(* databaseService.ts it calls.                                            *)
(*                                                                         *)
(* JavaScript runs one continuation at a time; every `await` is a point    *)
(* where other continuations may run.  Each action below is one            *)
(* continuation: the code between two awaits.  AsyncStorage serves its     *)
(* requests in the order they are issued, so a getItem returns the store   *)
(* as it is when getQueue() is called and a setItem takes effect when      *)
(* saveQueue() is called.                                                  *)
(***************************************************************************)
EXTENDS Integers, Sequences, FiniteSets, TLC

MAX_RETRIES == 3

\* TelegramService.maxRetries and retryDelay (ms)
maxRetries == 3
retryDelay == 1000

\* Bounds of the model.
MaxItems == 2
MaxDrains == 2
MaxOps == 1
MaxCalls == 2
MaxListeners == 2
MaxBytes == 6
MaxElapsed == 4

DrainIds == 1..MaxDrains
OpIds == 1..MaxOps
ListenerIds == 1..MaxListeners

VARIABLES
  store,         \* AsyncStorage value under QUEUE_KEY: the persisted queue
  online,        \* what NetInfo reports as isConnected
  isProcessing,  \* OfflineQueueService.isProcessing
  drain,         \* the processQueue() invocations in progress
  ops,           \* the addToQueue/removeFromQueue/clearCompleted/retryFailedUploads calls in progress
  nextId,        \* the next id generateId() hands out
  db,            \* DatabaseService.db is non-null
  files,         \* rows of the files table
  nextFileId,    \* the next file_id the remote assigns to a stored document
  sentLog,       \* per processQueue() invocation: the ids it called sendDocument for, in order
  accepted,      \* ids whose addToQueue() call has returned
  removed,       \* ids that removeFromQueue, clearCompleted or clearQueue took out
  calls,         \* number of calls and events the environment has made so far
  screen,        \* a screen is attached to the service in this session and subscribes
  listeners,     \* OfflineQueueService.listeners, in subscription order
  broadcasts,    \* notifyListeners() calls that wait for their saveQueue() to resolve
  notified,      \* the listener calls of the latest notifyListeners(), in order
  stats,         \* what the latest getQueueStats() returned
  error,         \* the error the latest TelegramService.handleError() was given
  thrown,        \* the message of the Error that handleError() returned
  withRetry,     \* the TelegramService.uploadWithRetry() call in progress, or the last one
  shown          \* UploadScreen: the latest progress event and the uploadSpeed and timeRemaining set from it

\* the subscription side of the service
busVars == <<screen, listeners, broadcasts, notified>>

\* results of the read-only operations
pureVars == <<stats, error, thrown, withRetry, shown>>

vars == <<store, online, isProcessing, drain, ops, nextId, db, files,
          nextFileId, sentLog, accepted, removed, calls, busVars, pureVars>>

----------------------------------------------------------------------------
\* QueuedUpload, reduced to the fields the queue logic reads and writes.
QueuedUpload(id) ==
  [id |-> id, status |-> "pending", attempts |-> 0, error |-> FALSE]

Ids(queue) == {queue[k].id : k \in 1..Len(queue)}

\* queue.findIndex(u => u.id === id), 0 standing for -1
findIndex(queue, id) ==
  IF \E k \in 1..Len(queue) : queue[k].id = id
  THEN CHOOSE k \in 1..Len(queue) :
         /\ queue[k].id = id
         /\ \A j \in 1..(k - 1) : queue[j].id # id
  ELSE 0

\* the predicate of the filter in processQueue
Eligible(upload) ==
  \/ upload.status = "pending"
  \/ (upload.status = "failed" /\ upload.attempts < MAX_RETRIES)

\* a selection that hands the eligible items over newest first
pendingUploadsNewestFirst(queue) ==
  LET sel == SelectSeq(queue, Eligible)
  IN [k \in 1..Len(sel) |-> sel[Len(sel) + 1 - k]]

\* queue.filter(...) of processQueue: keeps the queue's order
pendingUploads(queue) == SelectSeq(queue, Eligible)

\* the status the catch block of processUpload writes; `upload` is the
\* object of the drain's own snapshot, taken before the attempt was counted
failureStatus(upload) ==
  IF upload.attempts >= MAX_RETRIES THEN "failed" ELSE "pending"

\* the forEach body of retryFailedUploads
rearm(upload) ==
  IF upload.status = "failed" /\ upload.attempts < MAX_RETRIES
  THEN [upload EXCEPT !.status = "pending", !.error = FALSE]
  ELSE upload

rearmAll(queue) == [k \in 1..Len(queue) |-> rearm(queue[k])]

\* INSERT OR REPLACE INTO files with fileId UNIQUE
insertRow(table, fileId, item) ==
  {r \in table : r.fileId # fileId} \cup {[fileId |-> fileId, item |-> item]}

\* who issued a saveQueue(): a processQueue() invocation, a call in progress,
\* or clearQueue()
DrainOwner(d) == <<"drain", d>>
OpOwner(o) == <<"op", o>>
ClearOwner == <<"clearQueue", 0>>

\* `await this.saveQueue(queue); this.notifyListeners(queue)`: the save is
\* issued now, notifyListeners(queue) runs in the continuation, once the save
\* has resolved.  AsyncStorage resolves the saves in the order they were
\* issued.  Without a screen attached nobody ever subscribes and
\* notifyListeners does nothing, so the call is not kept.
Broadcast(owner, queue) ==
  /\ broadcasts' = IF screen THEN Append(broadcasts, [owner |-> owner, queue |-> queue])
                         ELSE broadcasts
  /\ UNCHANGED <<screen, listeners, notified>>

\* the continuation of owner that calls notifyListeners has run
Notified(owner) == \A k \in 1..Len(broadcasts) : broadcasts[k].owner # owner

IdleDrain == [pc |-> "idle", pend |-> <<>>, idx |-> 0, q |-> <<>>, ui |-> 0, fid |-> 0]
IdleOp == [kind |-> "none", q |-> <<>>, id |-> 0]

FreeDrains == {d \in DrainIds : drain[d].pc = "idle"}

\* a call of processQueue() up to its first await (lines 119-121): the
\* isProcessing test, then NetInfo.fetch() is issued
CanCallProcessQueue == isProcessing \/ FreeDrains # {}

\* a processQueue() that reaches its selection without yielding to its caller
CallProcessQueueNoYield(dr) ==
  IF isProcessing THEN dr
  ELSE LET d == CHOOSE x \in FreeDrains : \A y \in FreeDrains : x <= y
       IN [dr EXCEPT ![d] = [IdleDrain EXCEPT !.pc = "load",
                                              !.pend = pendingUploads(store)]]

CallProcessQueue(dr) ==
  IF isProcessing THEN dr
  ELSE LET d == CHOOSE x \in FreeDrains : \A y \in FreeDrains : x <= y
       IN [dr EXCEPT ![d] = [IdleDrain EXCEPT !.pc = "net"]]

----------------------------------------------------------------------------
\* The items a session that ended (or died) can leave in AsyncStorage:
\* pending with 0..MAX_RETRIES attempts made (the catch block of processUpload
\* compares the attempts of before the increment, so the attempt that brings
\* the count to MAX_RETRIES still leaves the item pending), uploading when the
\* process died between lines 161 and 216, failed once an attempt with
\* MAX_RETRIES earlier ones has failed.
PersistedUploads(id) ==
  {[id |-> id, status |-> "pending", attempts |-> a, error |-> (a > 0)]
     : a \in 0..MAX_RETRIES}
  \cup {[id |-> id, status |-> "uploading", attempts |-> a, error |-> (a > 1)]
     : a \in 1..MAX_RETRIES}
  \cup {[id |-> id, status |-> "failed", attempts |-> MAX_RETRIES + 1, error |-> TRUE]}

InitialQueues ==
  {<<>>} \cup {<<u>> : u \in PersistedUploads(1)}

\* The state after construction (lines 28-35, 333): a fresh process, the
\* constructor registers the listener and touches nothing else; AsyncStorage
\* holds what earlier sessions left.
\* no axios error: the value of `error` before any request has failed
NoResponse == [present |-> FALSE, status |-> 0, description |-> ""]
NoError == [code |-> "", message |-> "", response |-> NoResponse]

\* JavaScript numbers as the progress callback produces them: a quotient of
\* two non-negative integers (num / den, den > 0), Infinity or NaN
Finite(num, den) == [kind |-> "finite", num |-> num, den |-> den]
Infinity == [kind |-> "Infinity", num |-> 0, den |-> 1]
NaN == [kind |-> "NaN", num |-> 0, den |-> 1]

\* useState(0) of uploadSpeed and timeRemaining, before any progress event
NoProgress ==
  [event |-> FALSE, loaded |-> 0, total |-> 0, elapsed |-> 0,
   uploadSpeed |-> Finite(0, 1), timeRemaining |-> Finite(0, 1)]

\* no uploadWithRetry() call has been made: `attempt` is the loop variable,
\* `lastError` the message of the local lastError ("" for undefined), `sends`
\* the number of sendDocument calls made, `delays` the waits made (ms) and
\* `errors` the messages sendDocument threw, in order
NoUpload ==
  [pc |-> "idle", attempt |-> 0, lastError |-> "", sends |-> 0,
   delays |-> <<>>, errors |-> <<>>]

Constructed ==
  /\ store \in InitialQueues
  /\ online \in BOOLEAN
  /\ isProcessing = FALSE
  /\ drain = [d \in DrainIds |-> IdleDrain]
  /\ ops = [o \in OpIds |-> IdleOp]
  /\ nextId = Len(store) + 1
  /\ db = FALSE
  /\ files = {}
  /\ nextFileId = 1
  /\ sentLog = [d \in DrainIds |-> <<>>]
  /\ accepted = Ids(store)
  /\ removed = {}
  /\ calls = 0
  /\ listeners = <<>>
  /\ broadcasts = <<>>
  /\ notified = <<>>
  /\ stats = [total |-> 0, pending |-> 0, uploading |-> 0, completed |-> 0, failed |-> 0]
  /\ error = NoError
  /\ thrown = ""
  /\ withRetry = NoUpload
  /\ shown = NoProgress

\* a session in which no screen subscribes to the queue
Init == Constructed /\ screen = FALSE

\* every call or event from outside counts against MaxCalls
Called ==
  /\ calls < MaxCalls
  /\ calls' = calls + 1

----------------------------------------------------------------------------
\* The connectivity listener (setupNetworkListener): NetInfo delivers a state;
\* when it is connected and no drain holds the flag, processQueue() is called.
NetworkListener(isConnected) ==
  /\ (isConnected /\ ~isProcessing) => (FreeDrains # {})
  /\ online' = isConnected
  /\ drain' = IF isConnected /\ ~isProcessing THEN CallProcessQueue(drain) ELSE drain
  /\ UNCHANGED <<store, isProcessing, ops, nextId, db, files, nextFileId,
                 sentLog, accepted, removed>>
  /\ UNCHANGED <<busVars, pureVars>>

\* NetInfo reports a change of the connection.
NetInfoEvent ==
  /\ Called
  /\ \E isConnected \in BOOLEAN : NetworkListener(isConnected)

\* A direct call of the public processQueue().
ProcessQueue ==
  /\ Called
  /\ CanCallProcessQueue
  /\ drain' = CallProcessQueue(drain)
  /\ UNCHANGED <<store, online, isProcessing, ops, nextId, db, files,
                 nextFileId, sentLog, accepted, removed>>
  /\ UNCHANGED <<busVars, pureVars>>

\* processQueue, lines 121-128: NetInfo.fetch() has resolved.  Offline: return.
\* Online: set the flag and issue getQueue(); the filter of lines 129-132 is
\* applied to the queue that getQueue() reads here.
NetFetched(d) ==
  /\ drain[d].pc = "net"
  /\ IF ~online
     THEN /\ drain' = [drain EXCEPT ![d] = IdleDrain]
          /\ UNCHANGED isProcessing
     ELSE /\ isProcessing' = TRUE
          /\ drain' = [drain EXCEPT ![d].pc = "load",
                                    ![d].pend = pendingUploads(store)]
  /\ UNCHANGED <<store, online, ops, nextId, db, files, nextFileId,
                 sentLog, accepted, removed, calls>>
  /\ UNCHANGED <<busVars, pureVars>>

\* a for loop whose exit returns without clearing the flag
ForLoopKeepsFlag(d) ==
  /\ Notified(DrainOwner(d))
  /\ drain[d].pc \in {"load", "delay"}
  /\ IF drain[d].idx < Len(drain[d].pend)
     THEN /\ drain' = [drain EXCEPT ![d].pc = "upload",
                                    ![d].idx = @ + 1,
                                    ![d].q = store]
          /\ UNCHANGED sentLog
     ELSE /\ drain' = [drain EXCEPT ![d] = IdleDrain]
          /\ sentLog' = [sentLog EXCEPT ![d] = <<>>]
  /\ UNCHANGED <<store, online, isProcessing, ops, nextId, db, files, nextFileId,
                 accepted, removed, calls>>
  /\ UNCHANGED <<busVars, pureVars>>

\* processQueue, lines 136-145: the head of the for loop, entered after
\* getQueue() (first item) or after the delay (next items).  With an item left
\* it calls processUpload, which issues its own getQueue() (line 152);
\* with none left it clears the flag and returns.
ForLoop(d) ==
  /\ Notified(DrainOwner(d))
  /\ drain[d].pc \in {"load", "delay"}
  /\ IF drain[d].idx < Len(drain[d].pend)
     THEN /\ drain' = [drain EXCEPT ![d].pc = "upload",
                                    ![d].idx = @ + 1,
                                    ![d].q = store]
          /\ UNCHANGED <<isProcessing, sentLog>>
     ELSE /\ isProcessing' = FALSE
          /\ drain' = [drain EXCEPT ![d] = IdleDrain]
          /\ sentLog' = [sentLog EXCEPT ![d] = <<>>]
  /\ UNCHANGED <<store, online, ops, nextId, db, files, nextFileId,
                 accepted, removed, calls>>
  /\ UNCHANGED <<busVars, pureVars>>

\* a processUpload that looks for the item only after it has saved and
\* announced the queue it loaded
BeginUploadSavesFirst(d) ==
  /\ drain[d].pc = "upload"
  /\ LET upload == drain[d].pend[drain[d].idx]
         uploadIndex == findIndex(drain[d].q, upload.id)
     IN IF uploadIndex = 0
        THEN /\ drain' = [drain EXCEPT ![d].pc = "delay", ![d].q = <<>>]
             /\ store' = drain[d].q
             /\ UNCHANGED sentLog
             /\ Broadcast(DrainOwner(d), store')
        ELSE /\ LET queue == [drain[d].q EXCEPT
                                ![uploadIndex].status = "uploading",
                                ![uploadIndex].attempts = @ + 1]
                IN /\ store' = queue
                   /\ drain' = [drain EXCEPT ![d].pc = "sending",
                                             ![d].q = queue,
                                             ![d].ui = uploadIndex]
             /\ sentLog' = [sentLog EXCEPT ![d] = Append(@, upload.id)]
             /\ Broadcast(DrainOwner(d), store')
  /\ UNCHANGED <<online, isProcessing, ops, nextId, db, files, nextFileId,
                 accepted, removed, calls>>
  /\ UNCHANGED pureVars

\* processUpload, lines 153-180: the item is looked up in the queue just read;
\* absent: return.  Present: status uploading, attempts + 1, save, and
\* sendDocument is called.
BeginUpload(d) ==
  /\ drain[d].pc = "upload"
  /\ LET upload == drain[d].pend[drain[d].idx]
         uploadIndex == findIndex(drain[d].q, upload.id)
     IN IF uploadIndex = 0
        THEN /\ drain' = [drain EXCEPT ![d].pc = "delay", ![d].q = <<>>]
             /\ UNCHANGED <<store, sentLog, busVars>>
        ELSE /\ LET queue == [drain[d].q EXCEPT
                                ![uploadIndex].status = "uploading",
                                ![uploadIndex].attempts = @ + 1]
                IN /\ store' = queue
                   /\ drain' = [drain EXCEPT ![d].pc = "sending",
                                             ![d].q = queue,
                                             ![d].ui = uploadIndex]
             /\ sentLog' = [sentLog EXCEPT ![d] = Append(@, upload.id)]
             /\ Broadcast(DrainOwner(d), store')
  /\ UNCHANGED <<online, isProcessing, ops, nextId, db, files, nextFileId,
                 accepted, removed, calls>>
  /\ UNCHANGED pureVars

\* a catch block that lets the error end the whole processQueue() invocation
TransferFailsAborts(d) ==
  /\ Notified(DrainOwner(d))
  /\ drain[d].pc = "sending"
  /\ LET upload == drain[d].pend[drain[d].idx]
         queue == [drain[d].q EXCEPT
                     ![drain[d].ui].status = failureStatus(upload),
                     ![drain[d].ui].error = TRUE]
     IN /\ store' = queue
        /\ drain' = [drain EXCEPT ![d] = IdleDrain]
  /\ isProcessing' = FALSE
  /\ sentLog' = [sentLog EXCEPT ![d] = <<>>]
  /\ UNCHANGED <<online, ops, nextId, db, files, nextFileId,
                 accepted, removed, calls>>
  /\ Broadcast(DrainOwner(d), store')
  /\ UNCHANGED pureVars

\* processUpload, lines 204-217: sendDocument rejected (or the response had no
\* document); the catch block sets the status and the queue is saved.
TransferFails(d) ==
  /\ Notified(DrainOwner(d))
  /\ drain[d].pc = "sending"
  /\ LET upload == drain[d].pend[drain[d].idx]
         queue == [drain[d].q EXCEPT
                     ![drain[d].ui].status = failureStatus(upload),
                     ![drain[d].ui].error = TRUE]
     IN /\ store' = queue
        /\ drain' = [drain EXCEPT ![d].pc = "delay", ![d].q = <<>>, ![d].ui = 0]
  /\ UNCHANGED <<online, isProcessing, ops, nextId, db, files, nextFileId,
                 sentLog, accepted, removed, calls>>
  /\ Broadcast(DrainOwner(d), store')
  /\ UNCHANGED pureVars

\* processUpload, lines 176-196: sendDocument resolved with the file_id the
\* remote assigned to the stored document.  openDatabase (databaseService
\* lines 21-31) sets db unless the open threw; insertFile (lines 68-91) is a
\* no-op without db.  Nothing else reads db or files, so the two awaits are
\* taken in one step.
TransferSucceeds(d) ==
  /\ Notified(DrainOwner(d))
  /\ drain[d].pc = "sending"
  /\ nextFileId' = nextFileId + 1
  /\ \E opened \in BOOLEAN :
       /\ db' = (opened \/ db)
       /\ files' = IF db' THEN insertRow(files, nextFileId,
                                         drain[d].pend[drain[d].idx].id)
                          ELSE files
  /\ drain' = [drain EXCEPT ![d].pc = "insert", ![d].fid = nextFileId]
  /\ UNCHANGED <<store, online, isProcessing, ops, nextId,
                 sentLog, accepted, removed, calls>>
  /\ UNCHANGED <<busVars, pureVars>>

\* a success path that sets the status and leaves the error of an earlier
\* attempt in place
MarkCompletedKeepsError(d) ==
  /\ drain[d].pc = "insert"
  /\ LET queue == [drain[d].q EXCEPT ![drain[d].ui].status = "completed"]
     IN /\ store' = queue
        /\ drain' = [drain EXCEPT ![d].pc = "delay", ![d].q = <<>>,
                                  ![d].ui = 0, ![d].fid = 0]
  /\ UNCHANGED <<online, isProcessing, ops, nextId, db, files, nextFileId,
                 sentLog, accepted, removed, calls>>
  /\ Broadcast(DrainOwner(d), store')
  /\ UNCHANGED pureVars

\* processUpload, lines 198-217: insertFile resolved; status completed, error
\* cleared, queue saved.
MarkCompleted(d) ==
  /\ drain[d].pc = "insert"
  /\ LET queue == [drain[d].q EXCEPT
                     ![drain[d].ui].status = "completed",
                     ![drain[d].ui].error = FALSE]
     IN /\ store' = queue
        /\ drain' = [drain EXCEPT ![d].pc = "delay", ![d].q = <<>>,
                                  ![d].ui = 0, ![d].fid = 0]
  /\ UNCHANGED <<online, isProcessing, ops, nextId, db, files, nextFileId,
                 sentLog, accepted, removed, calls>>
  /\ Broadcast(DrainOwner(d), store')
  /\ UNCHANGED pureVars

----------------------------------------------------------------------------
\* an addToQueue whose generateId() hands out the same id again
AddToQueueSameId(o) ==
  /\ Called
  /\ ops[o].kind = "none"
  /\ nextId <= MaxItems
  /\ ops' = [ops EXCEPT ![o] = [kind |-> "add", q |-> store, id |-> 1]]
  /\ nextId' = nextId + 1
  /\ UNCHANGED <<store, online, isProcessing, drain, db, files, nextFileId,
                 sentLog, accepted, removed>>
  /\ UNCHANGED <<busVars, pureVars>>

\* addToQueue, lines 58-77: the item is built with a fresh id and getQueue()
\* is issued.
AddToQueue(o) ==
  /\ Called
  /\ ops[o].kind = "none"
  /\ nextId <= MaxItems
  /\ ops' = [ops EXCEPT ![o] = [kind |-> "add", q |-> store, id |-> nextId]]
  /\ nextId' = nextId + 1
  /\ UNCHANGED <<store, online, isProcessing, drain, db, files, nextFileId,
                 sentLog, accepted, removed>>
  /\ UNCHANGED <<busVars, pureVars>>

\* addToQueue, lines 78-83: push, save, notify; NetInfo.fetch() is issued.
AddSave(o) ==
  /\ ops[o].kind = "add"
  /\ store' = Append(ops[o].q, QueuedUpload(ops[o].id))
  /\ ops' = [ops EXCEPT ![o].kind = "addNet", ![o].q = <<>>]
  /\ UNCHANGED <<online, isProcessing, drain, nextId, db, files, nextFileId,
                 sentLog, accepted, removed, calls>>
  /\ Broadcast(OpOwner(o), store')
  /\ UNCHANGED pureVars

\* an addToQueue that calls processQueue() whatever NetInfo.fetch() reported
AddReturnAlwaysDrains(o) ==
  /\ Notified(OpOwner(o))
  /\ ops[o].kind = "addNet"
  /\ CanCallProcessQueue
  /\ drain' = CallProcessQueue(drain)
  /\ accepted' = accepted \cup {ops[o].id}
  /\ ops' = [ops EXCEPT ![o] = IdleOp]
  /\ UNCHANGED <<store, online, isProcessing, nextId, db, files, nextFileId,
                 sentLog, removed, calls>>
  /\ UNCHANGED <<busVars, pureVars>>

\* addToQueue, lines 84-88: when connected processQueue() is called, not
\* awaited; the id is returned.
AddReturn(o) ==
  /\ Notified(OpOwner(o))
  /\ ops[o].kind = "addNet"
  /\ online => CanCallProcessQueue
  /\ drain' = IF online THEN CallProcessQueue(drain) ELSE drain
  /\ accepted' = accepted \cup {ops[o].id}
  /\ ops' = [ops EXCEPT ![o] = IdleOp]
  /\ UNCHANGED <<store, online, isProcessing, nextId, db, files, nextFileId,
                 sentLog, removed, calls>>
  /\ UNCHANGED <<busVars, pureVars>>

\* removeFromQueue, line 224
RemoveFromQueue(o) ==
  /\ Called
  /\ ops[o].kind = "none"
  /\ \E id \in 1..(nextId - 1) :
       ops' = [ops EXCEPT ![o] = [kind |-> "remove", q |-> store, id |-> id]]
  /\ UNCHANGED <<store, online, isProcessing, drain, nextId, db, files,
                 nextFileId, sentLog, accepted, removed>>
  /\ UNCHANGED <<busVars, pureVars>>

\* a removal by queue.splice(index) without a count: the item and everything
\* behind it goes
RemoveSaveSplice(o) ==
  /\ ops[o].kind = "remove"
  /\ store' = LET at == findIndex(ops[o].q, ops[o].id)
              IN IF at = 0 THEN ops[o].q ELSE SubSeq(ops[o].q, 1, at - 1)
  /\ removed' = removed \cup {ops[o].id}
  /\ ops' = [ops EXCEPT ![o] = IdleOp]
  /\ UNCHANGED <<online, isProcessing, drain, nextId, db, files, nextFileId,
                 sentLog, accepted, calls>>
  /\ Broadcast(OpOwner(o), store')
  /\ UNCHANGED pureVars

\* removeFromQueue, lines 225-227
RemoveSave(o) ==
  /\ ops[o].kind = "remove"
  /\ store' = SelectSeq(ops[o].q, LAMBDA upload : upload.id # ops[o].id)
  /\ removed' = removed \cup {ops[o].id}
  /\ ops' = [ops EXCEPT ![o] = IdleOp]
  /\ UNCHANGED <<online, isProcessing, drain, nextId, db, files, nextFileId,
                 sentLog, accepted, calls>>
  /\ Broadcast(OpOwner(o), store')
  /\ UNCHANGED pureVars

\* clearCompleted, line 234
ClearCompleted(o) ==
  /\ Called
  /\ ops[o].kind = "none"
  /\ ops' = [ops EXCEPT ![o] = [kind |-> "clearCompleted", q |-> store, id |-> 0]]
  /\ UNCHANGED <<store, online, isProcessing, drain, nextId, db, files,
                 nextFileId, sentLog, accepted, removed>>
  /\ UNCHANGED <<busVars, pureVars>>

\* clearCompleted, lines 235-237
ClearCompletedSave(o) ==
  /\ ops[o].kind = "clearCompleted"
  /\ store' = SelectSeq(ops[o].q, LAMBDA upload : upload.status # "completed")
  /\ removed' = removed \cup
       {ops[o].q[k].id : k \in {j \in 1..Len(ops[o].q) : ops[o].q[j].status = "completed"}}
  /\ ops' = [ops EXCEPT ![o] = IdleOp]
  /\ UNCHANGED <<online, isProcessing, drain, nextId, db, files, nextFileId,
                 sentLog, accepted, calls>>
  /\ Broadcast(OpOwner(o), store')
  /\ UNCHANGED pureVars

\* clearQueue, lines 243-246
ClearQueue ==
  /\ Called
  /\ store' = <<>>
  /\ removed' = removed \cup Ids(store)
  /\ UNCHANGED <<online, isProcessing, drain, ops, nextId, db, files,
                 nextFileId, sentLog, accepted>>
  /\ Broadcast(ClearOwner, store')
  /\ UNCHANGED pureVars

\* retryFailedUploads, line 272
RetryFailedUploads(o) ==
  /\ Called
  /\ ops[o].kind = "none"
  /\ ops' = [ops EXCEPT ![o] = [kind |-> "retry", q |-> store, id |-> 0]]
  /\ UNCHANGED <<store, online, isProcessing, drain, nextId, db, files,
                 nextFileId, sentLog, accepted, removed>>
  /\ UNCHANGED <<busVars, pureVars>>

\* retryFailedUploads, lines 273-282: re-arm, save, notify, processQueue()
RetrySave(o) ==
  /\ ops[o].kind = "retry"
  /\ CanCallProcessQueue
  /\ store' = rearmAll(ops[o].q)
  /\ drain' = CallProcessQueue(drain)
  /\ ops' = [ops EXCEPT ![o] = IdleOp]
  /\ UNCHANGED <<online, isProcessing, nextId, db, files, nextFileId,
                 sentLog, accepted, removed, calls>>
  /\ Broadcast(OpOwner(o), store')
  /\ UNCHANGED pureVars

----------------------------------------------------------------------------
Next ==
  \/ NetInfoEvent
  \/ ProcessQueue
  \/ \E d \in DrainIds : NetFetched(d)
  \/ \E d \in DrainIds : ForLoop(d)
  \/ \E d \in DrainIds : BeginUpload(d)
  \/ \E d \in DrainIds : TransferFails(d)
  \/ \E d \in DrainIds : TransferSucceeds(d)
  \/ \E d \in DrainIds : MarkCompleted(d)
  \/ \E o \in OpIds : AddToQueue(o)
  \/ \E o \in OpIds : AddSave(o)
  \/ \E o \in OpIds : AddReturn(o)
  \/ \E o \in OpIds : RemoveFromQueue(o)
  \/ \E o \in OpIds : RemoveSave(o)
  \/ \E o \in OpIds : ClearCompleted(o)
  \/ \E o \in OpIds : ClearCompletedSave(o)
  \/ \E o \in OpIds : RetryFailedUploads(o)
  \/ \E o \in OpIds : RetrySave(o)
  \/ ClearQueue

Spec == Init /\ [][Next]_vars

----------------------------------------------------------------------------
\* The queue under the conditions of the liveness claim: the network stays
\* reachable, NetInfo keeps reporting connected states (each one a trigger of
\* the listener) whenever no processQueue() call is in progress, the only
\* calls are addToQueue, every continuation runs and every transfer ends.  The
\* session starts with one pending item in the store.
Reconnected ==
  /\ \A d \in DrainIds : drain[d].pc = "idle"
  /\ NetworkListener(TRUE)
  /\ UNCHANGED calls

LiveInit == Init /\ online /\ store \in {<<u>> : u \in {v \in PersistedUploads(1) : v.status = "pending"}}

DrainStep(d) ==
  \/ NetFetched(d)
  \/ ForLoop(d)
  \/ BeginUpload(d)
  \/ TransferFails(d)
  \/ TransferSucceeds(d)
  \/ MarkCompleted(d)

AddStep(o) ==
  \/ AddToQueue(o)
  \/ AddSave(o)
  \/ AddReturn(o)

LiveNext ==
  \/ Reconnected
  \/ \E d \in DrainIds : DrainStep(d)
  \/ \E o \in OpIds : AddStep(o)

LiveSpec ==
  /\ LiveInit
  /\ [][LiveNext]_vars
  /\ SF_vars(Reconnected)
  /\ \A d \in DrainIds : WF_vars(DrainStep(d))
  /\ \A o \in OpIds : WF_vars(AddSave(o) \/ AddReturn(o))

----------------------------------------------------------------------------
\* The queue on a store that can fail.  AsyncStorage.getItem or setItem may
\* reject (disk, quota).  getQueue catches the rejection, logs it and returns
\* [] (lines 98-101); saveQueue catches it and logs it (lines 110-112).  Spec
\* is the queue on a store that never fails; StorageSpec adds the steps of
\* addToQueue in which it does.

\* addToQueue, lines 58-77, with a getItem that rejects: getQueue() resolves
\* to []
AddLoadFails(o) ==
  /\ Called
  /\ ops[o].kind = "none"
  /\ nextId <= MaxItems
  /\ ops' = [ops EXCEPT ![o] = [kind |-> "addNoLoad", q |-> <<>>, id |-> nextId]]
  /\ nextId' = nextId + 1
  /\ UNCHANGED <<store, online, isProcessing, drain, db, files, nextFileId,
                 sentLog, accepted, removed>>
  /\ UNCHANGED <<busVars, pureVars>>

\* addToQueue, lines 78-83, after that load: push onto [], save, notify
AddSaveAfterFailedLoad(o) ==
  /\ ops[o].kind = "addNoLoad"
  /\ store' = Append(ops[o].q, QueuedUpload(ops[o].id))
  /\ ops' = [ops EXCEPT ![o].kind = "addNet", ![o].q = <<>>]
  /\ UNCHANGED <<online, isProcessing, drain, nextId, db, files, nextFileId,
                 sentLog, accepted, removed, calls>>
  /\ Broadcast(OpOwner(o), store')
  /\ UNCHANGED pureVars

\* addToQueue, lines 78-83, with a setItem that rejects: saveQueue() resolves
\* all the same, the listeners are notified and NetInfo.fetch() is issued
AddSaveFails(o) ==
  /\ ops[o].kind \in {"add", "addNoLoad"}
  /\ ops' = [ops EXCEPT ![o].kind = "addNet", ![o].q = <<>>]
  /\ UNCHANGED <<store, online, isProcessing, drain, nextId, db, files,
                 nextFileId, sentLog, accepted, removed, calls>>
  /\ Broadcast(OpOwner(o), Append(ops[o].q, QueuedUpload(ops[o].id)))
  /\ UNCHANGED pureVars

StorageNext ==
  \/ Next
  \/ \E o \in OpIds : AddLoadFails(o)
  \/ \E o \in OpIds : AddSaveAfterFailedLoad(o)
  \/ \E o \in OpIds : AddSaveFails(o)

StorageSpec == Init /\ [][StorageNext]_vars

----------------------------------------------------------------------------
\* The queue with screens subscribed to it.

\* subscribe, line 289: the listener is pushed onto this.listeners.  A screen
\* subscribes when it is mounted; only its unmounting is counted as a call.
Subscribe(l) ==
  /\ screen
  /\ \A k \in 1..Len(listeners) : listeners[k] # l
  /\ listeners' = Append(listeners, l)
  /\ UNCHANGED <<store, online, isProcessing, drain, ops, nextId, db, files,
                 nextFileId, sentLog, accepted, removed, calls>>
  /\ UNCHANGED <<screen, broadcasts, notified, pureVars>>

\* the function subscribe returned, lines 292-294
Unsubscribe(l) ==
  /\ Called
  /\ \E k \in 1..Len(listeners) : listeners[k] = l
  /\ listeners' = SelectSeq(listeners, LAMBDA x : x # l)
  /\ UNCHANGED <<store, online, isProcessing, drain, ops, nextId, db, files,
                 nextFileId, sentLog, accepted, removed>>
  /\ UNCHANGED <<screen, broadcasts, notified, pureVars>>

\* a forEach without the try/catch: the first listener that throws ends it
forEachUncaught(ls, queue, throwing) ==
  LET upto == IF \E k \in 1..Len(ls) : ls[k] \in throwing
              THEN CHOOSE k \in 1..Len(ls) :
                     /\ ls[k] \in throwing
                     /\ \A j \in 1..(k - 1) : ls[j] \notin throwing
              ELSE Len(ls)
  IN [k \in 1..upto |-> [listener |-> ls[k], queue |-> queue, threw |-> (ls[k] \in throwing)]]

\* the forEach of notifyListeners, lines 301-307: every listener is called with
\* the queue, in the order of this.listeners; a listener that throws (one of
\* `throwing`) is caught and logged, and the loop goes on
forEach(ls, queue, throwing) ==
  [k \in 1..Len(ls) |-> [listener |-> ls[k], queue |-> queue, threw |-> (ls[k] \in throwing)]]

\* The continuation after `await this.saveQueue(queue)`: the oldest save has
\* resolved and its caller runs notifyListeners(queue).
NotifyListeners ==
  /\ broadcasts # <<>>
  /\ \E throwing \in {{}} \cup {{l} : l \in ListenerIds} :
       notified' = forEach(listeners, Head(broadcasts).queue, throwing)
  /\ broadcasts' = Tail(broadcasts)
  /\ UNCHANGED <<store, online, isProcessing, drain, ops, nextId, db, files,
                 nextFileId, sentLog, accepted, removed, calls>>
  /\ UNCHANGED <<screen, listeners, pureVars>>

\* a session with a screen attached, starting from an empty queue or from one
\* item that has not been attempted yet
BusInit ==
  /\ Constructed
  /\ store \in {<<>>, <<QueuedUpload(1)>>}
  /\ screen = TRUE

BusNext ==
  \/ Next
  \/ \E l \in ListenerIds : Subscribe(l)
  \/ \E l \in ListenerIds : Unsubscribe(l)
  \/ NotifyListeners

BusSpec == BusInit /\ [][BusNext]_vars

----------------------------------------------------------------------------
\* Listeners that unsubscribe while notifyListeners() is running.  The whole
\* of notifyListeners is synchronous, so the listeners' bodies, and the
\* unsubscribe functions they call, run inside the one continuation.

\* `iter` is the array forEach walks over, `field` is this.listeners
Iteration(ls) == [iter |-> ls, field |-> ls]

\* an unsubscribe that takes the listeners out of the array in place
\* (splice), the array forEach is walking over
unsubscribeInPlace(it, gone) ==
  [iter |-> SelectSeq(it.iter, LAMBDA x : x \notin gone),
   field |-> SelectSeq(it.field, LAMBDA x : x \notin gone)]

\* the unsubscribe functions of the listeners `gone`, line 293: each assigns
\* a new, filtered array to this.listeners and leaves the old array as it is
unsubscribe(it, gone) ==
  [it EXCEPT !.field = SelectSeq(@, LAMBDA x : x \notin gone)]

\* Array.prototype.forEach as notifyListeners uses it (lines 301-307): the
\* length is read once, the indices are visited in order, an index the array
\* no longer has is skipped; body[l] are the listeners whose unsubscribe
\* function the body of listener l calls.  Yields the listener calls made
\* and this.listeners afterwards.
RECURSIVE forEachFrom(_, _, _, _, _, _)
forEachFrom(it, k, len, queue, body, out) ==
  IF k > len THEN [notified |-> out, listeners |-> it.field]
  ELSE IF k > Len(it.iter) THEN forEachFrom(it, k + 1, len, queue, body, out)
  ELSE LET l == it.iter[k]
       IN forEachFrom(unsubscribe(it, body[l]), k + 1, len, queue, body,
                      Append(out, [listener |-> l, queue |-> queue, threw |-> FALSE]))

Bodies == [ListenerIds -> SUBSET ListenerIds]

\* The continuation after `await this.saveQueue(queue)` with listeners that
\* unsubscribe from inside their callback.
NotifyUnsubscribing(body) ==
  /\ broadcasts # <<>>
  /\ LET done == forEachFrom(Iteration(listeners), 1, Len(listeners),
                             Head(broadcasts).queue, body, <<>>)
     IN /\ notified' = done.notified
        /\ listeners' = done.listeners
  /\ broadcasts' = Tail(broadcasts)
  /\ UNCHANGED <<store, online, isProcessing, drain, ops, nextId, db, files,
                 nextFileId, sentLog, accepted, removed, calls>>
  /\ UNCHANGED <<screen, pureVars>>

\* a session with a screen attached in which the queue is only cleared and
\* items are only removed
SubscriptionInit == Constructed /\ screen = TRUE

SubscriptionNext ==
  \/ \E l \in ListenerIds : Subscribe(l)
  \/ \E l \in ListenerIds : Unsubscribe(l)
  \/ \E body \in Bodies : NotifyUnsubscribing(body)
  \/ \E o \in OpIds : RemoveFromQueue(o)
  \/ \E o \in OpIds : RemoveSave(o)
  \/ \E o \in OpIds : ClearCompleted(o)
  \/ \E o \in OpIds : ClearCompletedSave(o)
  \/ ClearQueue

SubscriptionSpec == SubscriptionInit /\ [][SubscriptionNext]_vars

----------------------------------------------------------------------------
\* The queue with a caller that reads the statistics.

\* queue.filter(u => u.status === status).length
Count(queue, status) ==
  Cardinality({k \in 1..Len(queue) : queue[k].status = status})

\* statistics that count the items in flight among the pending ones as well
queueStatsUploadingTwice(queue) ==
  [total |-> Len(queue),
   pending |-> Count(queue, "pending") + Count(queue, "uploading"),
   uploading |-> Count(queue, "uploading"),
   completed |-> Count(queue, "completed"),
   failed |-> Count(queue, "failed")]

\* the object getQueueStats builds from the queue it read, lines 259-265
queueStats(queue) ==
  [total |-> Len(queue),
   pending |-> Count(queue, "pending"),
   uploading |-> Count(queue, "uploading"),
   completed |-> Count(queue, "completed"),
   failed |-> Count(queue, "failed")]

\* getQueueStats, lines 251-266: getQueue() reads the store as it is when the
\* call is made; the result is computed from that copy.
GetQueueStats ==
  /\ Called
  /\ stats' = queueStats(store)
  /\ UNCHANGED <<store, online, isProcessing, drain, ops, nextId, db, files,
                 nextFileId, sentLog, accepted, removed>>
  /\ UNCHANGED <<busVars, error, thrown, withRetry, shown>>

StatsNext ==
  \/ Next
  \/ GetQueueStats

StatsSpec == Init /\ [][StatsNext]_vars

----------------------------------------------------------------------------
\* TelegramService.sendDocument when axios.post rejects.

\* The errors axios.post can reject with, reduced to what handleError reads:
\* code, message, and the response when the remote answered (its status and
\* data.description; "" stands for undefined or empty, as `||` treats both
\* alike).  A request that exceeds the timeout of line 92 is rejected with code
\* ECONNABORTED and no response.
AxiosErrors ==
  [code : {"ECONNABORTED", "NETWORK_ERROR", "ERR_BAD_REQUEST", ""},
   message : {"timeout of 60000ms exceeded", "Network Error", ""},
   response : {NoResponse}
              \cup [present : {TRUE}, status : {400, 413, 429, 500},
                    description : {"Bad Request: chat not found", ""}]]

\* a handleError that looks at the message before the code
handleErrorMessageFirst(e) ==
  IF e.response.present
  THEN IF e.response.description # ""
       THEN e.response.description
       ELSE "HTTP " \o ToString(e.response.status) \o " error"
  ELSE IF e.message # ""
       THEN e.message
       ELSE IF e.code \in {"NETWORK_ERROR", "ECONNABORTED"}
            THEN "Network error. Please check your connection."
            ELSE "Unknown error occurred"

\* handleError, lines 255-267: the message of the Error it returns
handleError(e) ==
  IF e.response.present
  THEN IF e.response.description # ""
       THEN e.response.description
       ELSE "HTTP " \o ToString(e.response.status) \o " error"
  ELSE IF e.code \in {"NETWORK_ERROR", "ECONNABORTED"}
       THEN "Network error. Please check your connection."
       ELSE IF e.message # ""
            THEN e.message
            ELSE "Unknown error occurred"

\* sendDocument, lines 73-99: axios.post has rejected with some error
TransferInit ==
  /\ Init
  /\ store = <<>>
  /\ online

\* sendDocument, lines 96-99: the catch block throws handleError(error)
SendDocumentRejects ==
  /\ \E e \in AxiosErrors :
       /\ error' = e
       /\ thrown' = handleError(e)
  /\ UNCHANGED <<store, online, isProcessing, drain, ops, nextId, db, files,
                 nextFileId, sentLog, accepted, removed, calls>>
  /\ UNCHANGED <<busVars, stats, withRetry, shown>>

TransferSpec == TransferInit /\ [][SendDocumentRejects]_vars

----------------------------------------------------------------------------
\* TelegramService.uploadWithRetry, the upload of the upload screen.

\* uploadWithRetry, lines 202-206: lastError is declared, the loop starts with
\* attempt = 1 and sendDocument is called
UploadWithRetry ==
  /\ Called
  /\ withRetry.pc \in {"idle", "returned", "threw"}
  /\ withRetry' = [NoUpload EXCEPT !.pc = "sending", !.attempt = 1, !.sends = 1]
  /\ UNCHANGED <<store, online, isProcessing, drain, ops, nextId, db, files,
                 nextFileId, sentLog, accepted, removed>>
  /\ UNCHANGED <<busVars, stats, error, thrown, shown>>

\* the head of the for loop, line 204: attempt++, then sendDocument is called
\* again while attempt <= maxRetries; after the loop lastError is thrown
\* (line 216)
nextAttempt(r) ==
  IF r.attempt + 1 <= maxRetries
  THEN [r EXCEPT !.pc = "sending", !.attempt = @ + 1, !.sends = @ + 1]
  ELSE [r EXCEPT !.pc = "threw", !.attempt = @ + 1]

\* uploadWithRetry, line 206: sendDocument resolved, its result is returned
SendDocumentResolves ==
  /\ withRetry.pc = "sending"
  /\ withRetry' = [withRetry EXCEPT !.pc = "returned"]
  /\ UNCHANGED <<store, online, isProcessing, drain, ops, nextId, db, files,
                 nextFileId, sentLog, accepted, removed, calls>>
  /\ UNCHANGED <<busVars, stats, error, thrown, shown>>

\* a catch block that waits after every failed attempt, the last one included
caughtAlwaysWaits(r, message) ==
  [r EXCEPT !.pc = "delay",
            !.lastError = message,
            !.errors = Append(@, message),
            !.delays = Append(@, retryDelay * r.attempt)]

\* the catch block, lines 207-213: lastError = error; when attempt <
\* maxRetries, delay(retryDelay * attempt) is awaited, otherwise the loop
\* goes on at once
caught(r, message) ==
  LET failed == [r EXCEPT !.lastError = message, !.errors = Append(@, message)]
  IN IF r.attempt < maxRetries
     THEN [failed EXCEPT !.pc = "delay",
                         !.delays = Append(@, retryDelay * r.attempt)]
     ELSE nextAttempt(failed)

\* sendDocument threw handleError(error) (lines 96-99) into the catch block of
\* uploadWithRetry
SendDocumentThrows ==
  /\ withRetry.pc = "sending"
  /\ \E e \in AxiosErrors :
       /\ error' = e
       /\ thrown' = handleError(e)
       /\ withRetry' = caught(withRetry, handleError(e))
  /\ UNCHANGED <<store, online, isProcessing, drain, ops, nextId, db, files,
                 nextFileId, sentLog, accepted, removed, calls>>
  /\ UNCHANGED <<busVars, stats, shown>>

\* the timer of line 211 has fired
RetryDelayOver ==
  /\ withRetry.pc = "delay"
  /\ withRetry' = nextAttempt(withRetry)
  /\ UNCHANGED <<store, online, isProcessing, drain, ops, nextId, db, files,
                 nextFileId, sentLog, accepted, removed, calls>>
  /\ UNCHANGED <<busVars, stats, error, thrown, shown>>

RetryStep ==
  \/ SendDocumentResolves
  \/ SendDocumentThrows
  \/ RetryDelayOver

RetryNext ==
  \/ UploadWithRetry
  \/ RetryStep

\* The upload screen alone, with an empty queue: every request settles (it
\* has a timeout, line 92) and every timer fires.
RetrySpec ==
  /\ TransferInit
  /\ [][RetryNext]_vars
  /\ WF_vars(RetryStep)

----------------------------------------------------------------------------
\* The progress callback of the upload screen.

msPerSecond == 1000

\* a / b for a JavaScript number a >= 0 and b >= 0: x / 0 is Infinity for
\* x > 0 and NaN for x = 0, x / Infinity is 0, anything with NaN is NaN
\* (rounding of the floating point quotient is left out)
Divide(a, b) ==
  IF a.kind = "NaN" \/ b.kind = "NaN" THEN NaN
  ELSE IF a.kind = "Infinity" THEN (IF b.kind = "Infinity" THEN NaN ELSE Infinity)
  ELSE IF b.kind = "Infinity" THEN Finite(0, 1)
  ELSE IF b.num = 0 THEN (IF a.num = 0 THEN NaN ELSE Infinity)
  ELSE Finite(a.num * b.den, a.den * b.num)

\* UploadScreen line 99
remaining(total, loaded, speed) == Divide(Finite(total - loaded, 1), speed)

\* x > 0 in JavaScript
Positive(x) == x.kind = "Infinity" \/ (x.kind = "finite" /\ x.num > 0)

\* sendDocument's onUploadProgress (part_000 lines 82-91) passes an event with
\* a total on to the callback of uploadFile (UploadScreen lines 93-103), which
\* runs elapsedMs after startTime
OnUploadProgress ==
  /\ \E total \in 1..MaxBytes, loaded \in 0..MaxBytes, elapsedMs \in 0..MaxElapsed :
       /\ loaded <= total
       /\ LET elapsed == Finite(elapsedMs, msPerSecond)
              speed == Divide(Finite(loaded, 1), elapsed)
          IN shown' = [event |-> TRUE, loaded |-> loaded, total |-> total,
                       elapsed |-> elapsedMs,
                       uploadSpeed |-> speed,
                       timeRemaining |-> remaining(total, loaded, speed)]
  /\ UNCHANGED <<store, online, isProcessing, drain, ops, nextId, db, files,
                 nextFileId, sentLog, accepted, removed, calls>>
  /\ UNCHANGED <<busVars, stats, error, thrown, withRetry>>

ProgressSpec == TransferInit /\ [][OnUploadProgress]_vars

----------------------------------------------------------------------------
\* Vocabulary of the properties.

\* the invocation d of processQueue has set isProcessing (line 127) and has
\* not returned yet
Active(d) == drain[d].pc \notin {"idle", "net"}

\* the ids invocation d has called sendDocument for so far
Sent(d) == {sentLog[d][k] : k \in 1..Len(sentLog[d])}

\* the step in which invocation d calls sendDocument (line 176)
Sends(d) == BeginUpload(d) /\ drain'[d].pc = "sending"

\* the item invocation d is working on
Current(d) == drain[d].pend[drain[d].idx].id

StatusIn(queue, id) ==
  IF findIndex(queue, id) = 0 THEN "absent" ELSE queue[findIndex(queue, id)].status

----------------------------------------------------------------------------
\* C1 (at-most-one-drain): two processQueue() invocations that are in progress
\* at the same time never both call sendDocument for the same item.
C1_NoDoubleProcessing ==
  \A d1, d2 \in DrainIds :
    (d1 # d2 /\ Active(d1) /\ Active(d2)) => Sent(d1) \cap Sent(d2) = {}

\* C2 (bounded retries, the cap): when an attempt fails and the item's
\* persisted attempts is then MAX_RETRIES, its persisted status is failed; when
\* it is then 1 or 2, its status is pending.
C2_FailedAtCap ==
  [][\A d \in DrainIds :
       TransferFails(d) =>
         LET u == store'[drain[d].ui]
         IN /\ (u.attempts = MAX_RETRIES) => (u.status = "failed")
            /\ (u.attempts < MAX_RETRIES) => (u.status = "pending")]_vars

\* C3 (bounded retries, no automatic attempt): no invocation of processQueue
\* calls sendDocument for an item whose persisted status is failed.
C3_FailedNotAttempted ==
  [][\A d \in DrainIds :
       Sends(d) => StatusIn(store, Current(d)) # "failed"]_vars

\* C4 (never stuck): a drain that loads the queue while no other drain is in
\* progress selects every item the store holds as uploading (such an item was
\* left in flight by a process that died).
C4_InFlightResumed ==
  [][\A d \in DrainIds :
       (NetFetched(d) /\ online /\ \A e \in DrainIds \ {d} : ~Active(e)) =>
         \A k \in 1..Len(store) :
           store[k].status = "uploading" =>
             store[k].id \in Ids(drain'[d].pend)]_vars

\* C5 (accepted items stay): every id that addToQueue has returned and that no
\* removal has taken out is in the persisted queue.
C5_AcceptedItemKept ==
  \A id \in accepted \ removed : id \in Ids(store)

\* C6 (liveness): every item that addToQueue accepted and that was not
\* removed eventually has status completed or failed.
C6_EventuallySettled ==
  \A id \in 1..MaxItems :
    (id \in accepted \ removed) ~>
      (StatusIn(store, id) \in {"completed", "failed"} \/ id \in removed)

\* C7 (completed is terminal): an item persisted as completed keeps that
\* status as long as it is in the persisted queue, and sendDocument is never
\* called for it.
C7_CompletedTerminal ==
  [][/\ \A k \in 1..Len(store) :
          store[k].status = "completed" =>
            StatusIn(store', store[k].id) \in {"completed", "absent"}
     /\ \A d \in DrainIds :
          Sends(d) => StatusIn(store, Current(d)) # "completed"]_vars

\* C8 (idempotent completion): the files table holds at most one record per
\* queue item.
C8_OneRecordPerItem ==
  \A id \in 1..MaxItems : Cardinality({r \in files : r.item = id}) <= 1

\* C9 (order preservation): ids are handed out in enqueue order.  The persisted
\* queue is always in enqueue order (a retried item keeps its place), a drain's
\* selection is in enqueue order, and a drain calls sendDocument for the items
\* it selected in enqueue order.
C9_OrderPreserved ==
  /\ \A k, l \in 1..Len(store) : k < l => store[k].id < store[l].id
  /\ \A d \in DrainIds :
       /\ \A a, b \in 1..Len(drain[d].pend) :
            a < b => drain[d].pend[a].id < drain[d].pend[b].id
       /\ \A i, j \in 1..Len(sentLog[d]) :
            i < j => sentLog[d][i] < sentLog[d][j]
       /\ Sent(d) \subseteq {drain[d].pend[a].id : a \in 1..drain[d].idx}

\* a drain that selected a retried item A and a newer item B has called
\* sendDocument for both
C9_Witness ==
  \E d \in DrainIds :
    /\ Len(sentLog[d]) = 2
    /\ drain[d].pend[1].attempts > 0

\* C10 (retryFailedUploads): the save of retryFailedUploads leaves pending
\* every item that the queue it read held as failed.
C10_RetryRearmsFailed ==
  [][\A o \in OpIds :
       RetrySave(o) =>
         \A k \in 1..Len(ops[o].q) :
           ops[o].q[k].status = "failed" => store'[k].status = "pending"]_vars

\* C11 (unreachable network): the save of addToQueue stores the new item as
\* pending with attempts 0 and starts nothing; when NetInfo.fetch() then
\* reports unreachable, addToQueue returns without calling processQueue(), and
\* so without touching the store, the flag or any sendDocument call.  A
\* processQueue() whose NetInfo.fetch() reports unreachable returns, leaving
\* the persisted queue and isProcessing as they are and sending nothing.
C11_OfflineNoEffect ==
  [][/\ \A o \in OpIds :
          /\ AddSave(o) =>
               /\ store'[Len(store')] = [id |-> ops[o].id, status |-> "pending",
                                         attempts |-> 0, error |-> FALSE]
               /\ UNCHANGED <<drain, isProcessing, sentLog>>
          /\ (AddReturn(o) /\ ~online) =>
               /\ ops[o].id \in accepted'
               /\ UNCHANGED <<store, drain, isProcessing, sentLog>>
     /\ \A d \in DrainIds :
          (NetFetched(d) /\ ~online) =>
            /\ drain'[d].pc = "idle"
            /\ \A e \in DrainIds \ {d} : drain'[e] = drain[e]
            /\ UNCHANGED <<store, isProcessing, sentLog>>]_vars

\* addToQueue has returned the id of a second item while the network is
\* unreachable, the item is stored as pending with no attempt made, and a
\* processQueue() call is waiting for NetInfo.fetch()
C11_Witness ==
  /\ ~online
  /\ 2 \in accepted
  /\ findIndex(store, 2) # 0
  /\ store[findIndex(store, 2)].status = "pending"
  /\ store[findIndex(store, 2)].attempts = 0
  /\ \E d \in DrainIds : drain[d].pc = "net"
  /\ \A d \in DrainIds : ~Active(d)

\* C12 (reconnection): every change of the connection from unreachable to
\* reachable starts a processQueue() invocation; an invocation that has
\* finished with a selected item leaves it with exactly one attempt more than
\* it had when the invocation selected it, and when sendDocument succeeded
\* the item is persisted as completed.
C12_ReconnectAttemptsOnce ==
  [][/\ (NetInfoEvent /\ ~online /\ online') =>
          \E d \in DrainIds : drain[d].pc = "idle" /\ drain'[d].pc = "net"
     /\ \A d \in DrainIds :
          /\ (TransferFails(d) \/ MarkCompleted(d)) =>
               store'[drain[d].ui].attempts = drain[d].pend[drain[d].idx].attempts + 1
          /\ MarkCompleted(d) =>
               StatusIn(store', Current(d)) = "completed"]_vars

\* the parts of C13 that do not depend on whether an item is still queued: a
\* failed sendDocument leaves the invocation in its loop at the same item
\* with the flag held, the queue it saves differs from the queue processUpload
\* worked on only in that item (status and error), the loop goes through the
\* selection one item at a time and returns only after the last one, and no
\* item is sent twice by one invocation
FailureIsolated(d) ==
  /\ TransferFails(d) =>
       /\ drain'[d].pc = "delay"
       /\ drain'[d].pend = drain[d].pend
       /\ drain'[d].idx = drain[d].idx
       /\ UNCHANGED isProcessing
       /\ Len(store') = Len(drain[d].q)
       /\ \A k \in 1..Len(store') : k # drain[d].ui => store'[k] = drain[d].q[k]
       /\ store'[drain[d].ui].id = Current(d)
       /\ store'[drain[d].ui].error
       /\ store'[drain[d].ui].attempts = drain[d].q[drain[d].ui].attempts
  /\ (ForLoop(d) /\ drain'[d].pc = "upload") => drain'[d].idx = drain[d].idx + 1
  /\ (ForLoop(d) /\ drain'[d].pc = "idle") => drain[d].idx = Len(drain[d].pend)
  /\ \A i, j \in 1..Len(sentLog[d]) : i # j => sentLog[d][i] # sentLog[d][j]

\* C13 as stated (failure isolation): as above, and an invocation that
\* returns has called sendDocument for every item it selected.
C13_EverySelectedAttempted ==
  [][\A d \in DrainIds :
       /\ FailureIsolated(d)
       /\ (ForLoop(d) /\ drain'[d].pc = "idle") =>
            Sent(d) = Ids(drain[d].pend)]_vars

\* C13 amended: as above, and when the turn of a selected item comes,
\* sendDocument is called for it exactly when the queue processUpload has
\* just read still holds it; an item that is no longer queued is skipped.
C13_EveryQueuedSelectedAttempted ==
  [][\A d \in DrainIds :
       /\ FailureIsolated(d)
       /\ BeginUpload(d) =>
            IF Current(d) \in Ids(drain[d].q)
            THEN /\ drain'[d].pc = "sending"
                 /\ sentLog'[d] = Append(sentLog[d], Current(d))
            ELSE /\ drain'[d].pc = "delay"
                 /\ UNCHANGED <<store, sentLog>>]_vars

\* an invocation selected two items, sendDocument failed for the first one,
\* which is recorded on it, and the invocation has gone on to send the second
C13_Witness ==
  \E d \in DrainIds :
    /\ Len(drain[d].pend) = 2
    /\ Len(sentLog[d]) = 2
    /\ drain[d].pc = "sending"
    /\ Len(store) = 2
    /\ store[1].id = drain[d].pend[1].id
    /\ store[1].status \in {"pending", "failed"}
    /\ store[1].error
    /\ store[1].attempts = drain[d].pend[1].attempts + 1
    /\ store[2].status = "uploading"

\* C14 (persistence failure): an addToQueue whose load failed does not go on
\* to a save that drops items the store holds, and an addToQueue whose save
\* failed does not go on to return the id.
C14_PersistenceFailureSafe ==
  [][\A o \in OpIds :
       /\ AddSaveAfterFailedLoad(o) => Ids(store) \subseteq Ids(store')
       /\ AddSaveFails(o) => ops'[o].kind # "addNet"]_vars

\* C15 (addToQueue): the save of addToQueue turns the persisted queue into
\* itself with the new item (pending, attempts 0, no error) appended, every
\* item it held staying as it was; and addToQueue returns the id whatever
\* NetInfo.fetch() reported.
C15_AppendsToPersistedQueue ==
  [][\A o \in OpIds :
       /\ AddSave(o) => store' = Append(store, QueuedUpload(ops[o].id))
       /\ AddReturn(o) => ops[o].id \in accepted']_vars

\* the queue with F applied to the item id, when it holds it
Update(queue, id, F(_)) ==
  [k \in 1..Len(queue) |-> IF queue[k].id = id THEN F(queue[k]) ELSE queue[k]]

\* C16 (atomic mutations): every save of an operation turns the persisted
\* queue into itself with the operation's own change applied (the item
\* appended, the item removed, the completed items removed, the failed items
\* re-armed, the status update of the item in processUpload), so that
\* whatever another operation persisted since the saver loaded the queue is
\* kept.
C16_AtomicMutations ==
  [][/\ \A o \in OpIds :
          /\ AddSave(o) => store' = Append(store, QueuedUpload(ops[o].id))
          /\ RemoveSave(o) =>
               store' = SelectSeq(store, LAMBDA upload : upload.id # ops[o].id)
          /\ ClearCompletedSave(o) =>
               store' = SelectSeq(store, LAMBDA upload : upload.status # "completed")
          /\ RetrySave(o) => store' = rearmAll(store)
     /\ \A d \in DrainIds :
          /\ Sends(d) =>
               store' = Update(store, Current(d),
                               LAMBDA u : [u EXCEPT !.status = "uploading",
                                                    !.attempts = @ + 1])
          /\ TransferFails(d) =>
               store' = Update(store, Current(d),
                               LAMBDA u : [u EXCEPT !.status = store'[drain[d].ui].status,
                                                    !.error = TRUE])
          /\ MarkCompleted(d) =>
               store' = Update(store, Current(d),
                               LAMBDA u : [u EXCEPT !.status = "completed",
                                                    !.error = FALSE])]_vars

\* the status changes of the item state machine (uploading is in_flight)
Transitions ==
  {<<"pending", "uploading">>, <<"uploading", "completed">>,
   <<"uploading", "pending">>, <<"uploading", "failed">>,
   <<"failed", "pending">>}

\* C17 (state machine): in every step, an item of the persisted queue that is
\* still in it afterwards either keeps its status or changes it along one of
\* the five transitions.
C17_OnlyStateMachineTransitions ==
  [][\A k \in 1..Len(store) :
       LET from == store[k].status
           to == StatusIn(store', store[k].id)
       IN to \in {from, "absent"} \/ <<from, to>> \in Transitions]_vars

\* C18 (only the processor writes the attempt fields): in every step that
\* changes the status, attempts or error of an item that stays in the
\* persisted queue, the step is a save of processUpload for that item, made
\* by a processQueue() invocation in progress while isProcessing is set.
C18_OnlyProcessorWritesStatus ==
  [][\A k \in 1..Len(store) :
       LET id == store[k].id
           l == findIndex(store', id)
       IN (l # 0 /\ store'[l] # store[k]) =>
            \E d \in DrainIds :
              /\ Sends(d) \/ TransferFails(d) \/ MarkCompleted(d)
              /\ Active(d)
              /\ isProcessing
              /\ Current(d) = id]_vars

\* C19 (sequential transfers): at most one processQueue() invocation is
\* awaiting sendDocument at any moment.
C19_OneTransferAtATime ==
  Cardinality({d \in DrainIds : drain[d].pc = "sending"}) <= 1

\* invocation d is between two items: the processUpload of the item at
\* position a of its selection has returned and sendDocument has not been
\* called for the next one yet (the delay of line 140, or the getQueue() of
\* the next processUpload)
Between(d, a) ==
  /\ a >= 1
  /\ a < Len(drain[d].pend)
  /\ \/ drain[d].pc = "delay" /\ drain[d].idx = a
     \/ drain[d].pc = "upload" /\ drain[d].idx = a + 1

\* the persisted queue shows item id with this status, unless a removal took
\* the item out
Shows(queue, id, status, gone) ==
  StatusIn(queue, id) = status \/ (id \in gone /\ StatusIn(queue, id) = "absent")

\* C20 (outcome persisted before the next attempt): when processUpload
\* persists the success of item A and the invocation has a next item B, the
\* persisted queue shows A completed and B pending, and it keeps showing that
\* in every state until the invocation calls sendDocument for B.
C20_OutcomeVisibleDuringDelay ==
  [][\A d \in DrainIds :
       /\ (MarkCompleted(d) /\ drain[d].idx < Len(drain[d].pend)) =>
            /\ Shows(store', Current(d), "completed", removed')
            /\ Shows(store', drain[d].pend[drain[d].idx + 1].id, "pending", removed')
       /\ \A a \in 1..MaxItems :
            (/\ Between(d, a)
             /\ Shows(store, drain[d].pend[a].id, "completed", removed)
             /\ Shows(store, drain[d].pend[a + 1].id, "pending", removed)
             /\ ~BeginUpload(d)) =>
              /\ Shows(store', drain[d].pend[a].id, "completed", removed')
              /\ Shows(store', drain[d].pend[a + 1].id, "pending", removed')]_vars

\* C21 (broadcast after every mutation): every step that changes the
\* persisted queue schedules one notifyListeners call with the queue it
\* saved; every notifyListeners call calls exactly the subscribed listeners,
\* in subscription order, with a queue that is the persisted queue at that
\* moment.
C21_BroadcastCurrentQueue ==
  [][/\ store' # store =>
          /\ Len(broadcasts') = Len(broadcasts) + 1
          /\ broadcasts'[Len(broadcasts')].queue = store'
     /\ NotifyListeners =>
          /\ Len(notified') = Len(listeners)
          /\ \A k \in 1..Len(listeners) :
               /\ notified'[k].listener = listeners[k]
               /\ notified'[k].queue = store]_vars

\* C22 (a throwing listener): whichever listeners throw, a notifyListeners
\* call calls every subscribed listener, in subscription order, with the same
\* queue (the one its caller saved), and it changes nothing of the queue, of
\* the calls in progress, of the processQueue() invocations or of the flag:
\* the caller goes on after it.
C22_ThrowingListenerIsolated ==
  [][NotifyListeners =>
       /\ Len(notified') = Len(listeners)
       /\ \A k \in 1..Len(listeners) :
            /\ notified'[k].listener = listeners[k]
            /\ notified'[k].queue = Head(broadcasts).queue
       /\ broadcasts' = Tail(broadcasts)
       /\ UNCHANGED <<store, drain, ops, isProcessing>>]_vars

\* the first of two listeners threw and the second one was called with the
\* same queue, while a processQueue() invocation is at its sendDocument call
C22_Witness ==
  /\ Len(notified) = 2
  /\ notified[1].threw
  /\ notified[2].queue = notified[1].queue
  /\ notified[2].queue # <<>>
  /\ \E d \in DrainIds : drain[d].pc = "sending" /\ Notified(DrainOwner(d))

\* C23 (retryFailedUploads touches nothing else): the save of
\* retryFailedUploads leaves the persisted queue with the same items in the
\* same order, every item with the attempts it had, and every item that was
\* not failed with the status it had.
C23_RetryChangesOnlyFailedStatus ==
  [][\A o \in OpIds :
       RetrySave(o) =>
         /\ Len(store') = Len(store)
         /\ \A k \in 1..Len(store) :
              /\ store'[k].id = store[k].id
              /\ store'[k].attempts = store[k].attempts
              /\ store[k].status # "failed" => store'[k].status = store[k].status]_vars

\* C24 (attempts counts the attempts): attempts is never negative and a new
\* item has 0; in every step, each item that stays in the persisted queue
\* keeps its attempts, except that the step in which sendDocument is called
\* for it makes them exactly one more.
C24_AttemptsCountsSends ==
  [][/\ \A k \in 1..Len(store) : store[k].attempts >= 0
     /\ \A o \in OpIds :
          AddSave(o) => store'[Len(store')].attempts = 0
     /\ \A k \in 1..Len(store) :
          LET id == store[k].id
              l == findIndex(store', id)
          IN l # 0 =>
               store'[l].attempts =
                 store[k].attempts
                   + Cardinality({d \in DrainIds : Sends(d) /\ Current(d) = id})]_vars

\* C25 (error follows the latest attempt): the save that ends a successful
\* attempt stores the item as completed without an error, the save that ends
\* a failed attempt stores it as pending or failed with an error; so no
\* completed item of the persisted queue carries an error and every failed
\* one does.
C25_ErrorIffAttemptFailed ==
  [][/\ \A d \in DrainIds :
          /\ MarkCompleted(d) =>
               /\ store'[drain[d].ui].id = Current(d)
               /\ store'[drain[d].ui].status = "completed"
               /\ ~store'[drain[d].ui].error
          /\ TransferFails(d) =>
               /\ store'[drain[d].ui].id = Current(d)
               /\ store'[drain[d].ui].status \in {"pending", "failed"}
               /\ store'[drain[d].ui].error
     /\ \A k \in 1..Len(store') :
          /\ store'[k].status = "completed" => ~store'[k].error
          /\ store'[k].status = "failed" => store'[k].error]_vars

\* an item whose earlier attempt had failed has been completed by a later
\* attempt, and its error is gone
C25_Witness ==
  \E k \in 1..Len(store) :
    /\ store[k].status = "completed"
    /\ store[k].attempts >= 2
    /\ ~store[k].error

\* C26 (unique ids): no two items of the persisted queue have the same id.
C26_IdsDistinct ==
  \A k, l \in 1..Len(store) : k # l => store[k].id # store[l].id

\* the persisted queue holds two items, one of them written back by a stale
\* save after a removal had taken it out
C26_Witness ==
  /\ Len(store) = 2
  /\ \E id \in removed : id \in Ids(store)

\* C27 (getQueueStats): a getQueueStats call changes neither the persisted
\* queue nor isProcessing nor any call or processQueue() invocation in
\* progress, and for the queue it read each count is the number of items with
\* that status and total is the sum of the four counts.
C27_StatsPureAndConsistent ==
  [][GetQueueStats =>
       /\ UNCHANGED <<store, isProcessing, drain, ops, listeners, broadcasts>>
       /\ stats'.total = Len(store)
       /\ stats'.total = stats'.pending + stats'.uploading
                           + stats'.completed + stats'.failed
       /\ \A st \in {"pending", "uploading", "completed", "failed"} :
            stats'[st] = Cardinality({k \in 1..Len(store) : store[k].status = st})]_vars

\* getQueueStats has returned the counts of a queue with one item in flight
\* and one pending
C27_Witness ==
  /\ stats.total = 2
  /\ stats.uploading = 1
  /\ stats.pending = 1

\* C28 (timeout is a network failure): for a request that timed out (code
\* ECONNABORTED, no response) handleError returns the network-error message;
\* it returns the remote description or the HTTP status message exactly when
\* the remote answered.
C28_TimeoutIsNetworkError ==
  /\ (error.code = "ECONNABORTED" /\ ~error.response.present) =>
       thrown = "Network error. Please check your connection."
  /\ error.response.present <=>
       \/ thrown = "Bad Request: chat not found"
       \/ \E st \in {400, 413, 429, 500} :
            thrown = "HTTP " \o ToString(st) \o " error"

\* a request with a timeout message was rejected with ECONNABORTED and no
\* response, and handleError has classified it
C28_Witness ==
  /\ error.code = "ECONNABORTED"
  /\ error.message = "timeout of 60000ms exceeded"
  /\ ~error.response.present
  /\ thrown = "Network error. Please check your connection."

\* The queue of Spec with the scheduling of the drain: the event loop runs
\* every continuation of processQueue() and processUpload(), the transfer
\* settles (the request has a timeout) and the timer of the delay fires.  The
\* calls from outside (add, remove, clear, retry, connectivity events) stay
\* free to happen or not.
LockSpec ==
  /\ Init
  /\ [][Next]_vars
  /\ \A d \in DrainIds : WF_vars(DrainStep(d))

C30_DrainWorksOnItsSelection ==
  [][\A d \in DrainIds :
       /\ (Active(d) /\ Active(d)') => drain'[d].pend = drain[d].pend
       /\ Sends(d) => Current(d) \in Ids(drain[d].pend)
       /\ (Active(d) /\ DrainStep(d)) =>
            \A k \in 1..Len(store) :
              (/\ store[k].status = "pending"
               /\ \A e \in DrainIds :
                    Active(e) => store[k].id \notin Ids(drain[e].pend))
              => StatusIn(store', store[k].id) = "pending"]_vars

\* C31 (failed means the cap was reached): no item of the persisted queue has
\* status failed with attempts < MAX_RETRIES, and no item a processQueue()
\* invocation selected was selected by the second case of its filter.
C31_FailedOnlyAtCap ==
  /\ \A k \in 1..Len(store) :
       store[k].status = "failed" => store[k].attempts >= MAX_RETRIES
  /\ \A d \in DrainIds : \A k \in 1..Len(drain[d].pend) :
       drain[d].pend[k].status = "pending"

\* C32 (unsubscribing during a broadcast): when listeners unsubscribe (their
\* own or another's subscription) from inside their callback, the broadcast
\* still calls every listener that was subscribed when it started, once each
\* and in subscription order, and afterwards this.listeners holds none of the
\* unsubscribed listeners, so that no later broadcast calls them.
C32_UnsubscribeDuringBroadcast ==
  [][\A body \in Bodies :
       NotifyUnsubscribing(body) =>
         LET gone == UNION {body[listeners[k]] : k \in 1..Len(listeners)}
         IN /\ Len(notified') = Len(listeners)
            /\ \A k \in 1..Len(listeners) :
                 /\ notified'[k].listener = listeners[k]
                 /\ notified'[k].queue = Head(broadcasts).queue
            /\ listeners' = SelectSeq(listeners, LAMBDA x : x \notin gone)]_vars

\* after one call (the one that saved the queue) a broadcast to two listeners
\* has run, and one of them was unsubscribed during it
C32_Witness ==
  /\ calls = 1
  /\ Len(notified) = 2
  /\ Len(listeners) = 1

\* the positions of queue whose item is not one of gone
KeptPositions(queue, gone) == {k \in 1..Len(queue) : k \notin gone}

\* new is queue without the items at the positions gone: the other items,
\* unchanged and in their order
Without(queue, gone, new) ==
  LET kept == KeptPositions(queue, gone)
  IN /\ Len(new) = Cardinality(kept)
     /\ \A k \in kept : new[Cardinality({j \in kept : j <= k})] = queue[k]

C34_RemovalPermanent ==
  \A id \in removed : id \notin Ids(store)

\* C35 (a selected item that is gone is skipped): when processUpload finds
\* that the queue it has just read no longer holds the selected item, it
\* calls neither sendDocument nor the database, writes nothing to the store,
\* notifies nobody, and the invocation goes on: after the delay the for loop
\* takes the next selected item, or returns when there is none.
C35_MissingItemSkipped ==
  [][\A d \in DrainIds :
       /\ (BeginUpload(d) /\ Current(d) \notin Ids(drain[d].q)) =>
            /\ UNCHANGED <<store, sentLog, db, files, broadcasts, notified,
                           isProcessing>>
            /\ drain'[d].pc = "delay"
            /\ drain'[d].idx = drain[d].idx
            /\ drain'[d].pend = drain[d].pend
       /\ (ForLoop(d) /\ drain[d].pc = "delay") =>
            IF drain[d].idx < Len(drain[d].pend)
            THEN /\ drain'[d].pc = "upload"
                 /\ drain'[d].idx = drain[d].idx + 1
                 /\ drain'[d].pend = drain[d].pend
            ELSE /\ drain'[d].pc = "idle"
                 /\ ~isProcessing']_vars

\* an invocation selected two items, skipped the first one, which had been
\* removed, and is sending the second
C35_Witness ==
  \E d \in DrainIds :
    /\ Len(drain[d].pend) = 2
    /\ drain[d].pc = "sending"
    /\ sentLog[d] = <<drain[d].pend[2].id>>
    /\ drain[d].pend[1].id \in removed

\* C36 (completed means recorded): every item of the persisted queue whose
\* status is completed has a row in the files table.
C36_CompletedHasRecord ==
  \A k \in 1..Len(store) :
    store[k].status = "completed" => \E r \in files : r.item = store[k].id

\* C37 (one item in flight): at most one item of the persisted queue has
\* status uploading, and when an item has it the flag isProcessing is set
\* and a processQueue() invocation is in processUpload for that item.
C37_OneUploadingOwned ==
  /\ Cardinality({k \in 1..Len(store) : store[k].status = "uploading"}) <= 1
  /\ \A k \in 1..Len(store) :
       store[k].status = "uploading" =>
         /\ isProcessing
         /\ \E d \in DrainIds :
              /\ drain[d].pc \in {"sending", "insert"}
              /\ Current(d) = store[k].id

\* C38 (addToQueue does not wait for the drain): the step in which addToQueue
\* returns hands the id to the caller and ends the call; a processQueue()
\* invocation it has started is then at its NetInfo.fetch(), no transfer was
\* made and neither the store nor the flag was touched in that step.
C38_AddDoesNotWaitForDrain ==
  [][\A o \in OpIds :
       AddReturn(o) =>
         /\ ops[o].id \in accepted'
         /\ ops'[o] = IdleOp
         /\ UNCHANGED <<store, isProcessing, sentLog, files>>
         /\ \A d \in DrainIds :
              drain'[d] # drain[d] =>
                (drain[d].pc = "idle" /\ drain'[d].pc = "net")]_vars

\* the caller holds the id of the second item while the drain that
\* addToQueue started is in the transfer of that item
C38_Witness ==
  /\ 2 \in accepted
  /\ \A o \in OpIds : ops[o].kind = "none"
  /\ StatusIn(store, 2) = "uploading"
  /\ \E d \in DrainIds : drain[d].pc = "sending" /\ Current(d) = 2

\* C39 (uploadWithRetry is bounded): a call makes at most maxRetries
\* sendDocument calls, one per attempt; it returns as soon as one resolves,
\* all earlier ones having failed; between two attempts it has waited
\* retryDelay * attempt, and not after the last one; when it throws, maxRetries
\* calls have failed and the error thrown is that of the last one; and every
\* call ends, returning or throwing.
C39_RetryBounded ==
  /\ [](/\ withRetry.sends <= maxRetries
        /\ withRetry.pc \in {"sending", "delay", "returned"} =>
             withRetry.sends = withRetry.attempt
        /\ withRetry.pc \in {"sending", "returned"} =>
             /\ Len(withRetry.errors) = withRetry.sends - 1
             /\ Len(withRetry.delays) = withRetry.sends - 1
        /\ withRetry.pc = "delay" =>
             /\ Len(withRetry.errors) = withRetry.sends
             /\ Len(withRetry.delays) = withRetry.sends
             /\ withRetry.sends < maxRetries
        /\ \A k \in 1..Len(withRetry.delays) :
             withRetry.delays[k] = retryDelay * k
        /\ withRetry.pc = "threw" =>
             /\ withRetry.sends = maxRetries
             /\ Len(withRetry.errors) = maxRetries
             /\ Len(withRetry.delays) = maxRetries - 1
             /\ withRetry.lastError = withRetry.errors[maxRetries])
  /\ (withRetry.pc = "sending") ~> (withRetry.pc \in {"returned", "threw"})

\* a call has thrown after three failed attempts with different errors
C39_Witness ==
  /\ withRetry.pc = "threw"
  /\ withRetry.errors[1] # withRetry.errors[3]
  /\ withRetry.errors[2] # withRetry.errors[3]

\* C40 (ETA): after a progress event, when the throughput is greater than 0
\* the time remaining is (total - loaded) / throughput; when it is not (no
\* byte sent yet, or no time elapsed and no byte sent) no time remaining is
\* reported: the value is not one the screen shows (timeRemaining > 0).
C40_EtaOnlyForPositiveThroughput ==
  shown.event =>
    IF Positive(shown.uploadSpeed)
    THEN shown.timeRemaining =
           Divide(Finite(shown.total - shown.loaded, 1), shown.uploadSpeed)
    ELSE ~Positive(shown.timeRemaining)

====
